---- MODULE Spec2Model ----
(***************************************************************************)
(* Optimistic-update cache protocol of the task hooks (useCreateTask,      *)
(* useToggleTaskCompletion, useDeleteTask, useUpdateTaskStatus) over the   *)
(* TanStack query cache and the SQLite task queries.                       *)
(*                                                                         *)
(* The repository holds two revisions of the task hooks:                   *)
(*   src/hooks/useTasks.ts   (hookFile = "useTasks")                       *)
(*   src/unnamed/part_018    (hookFile = "part_018")                       *)
(* They differ in the toggle and status-change patches; hookFile selects   *)
(* the revision and every behaviour of either revision is a behaviour of   *)
(* the model.                                                              *)
(*                                                                         *)
(* Representation:                                                         *)
(*  - a JS value that may be undefined is a sequence of length 0 or 1;     *)
(*  - a timestamp string new Date(ms).toISOString() is represented by ms;  *)
(*  - a numeric field that is undefined holds Undefined, a string field    *)
(*    holds UndefinedStr; is_completed is only ever read for truthiness,   *)
(*    so an undefined is_completed is represented by FALSE.                *)
(***************************************************************************)
EXTENDS Integers, Sequences, FiniteSets, TLC

VARIABLES hookFile, now, db, nextId, cache, fetching, stale, muts, nMuts,
          nFetch, deletingTaskId, currentDelete, observer, last, hist

\* the state of the TasksScreen revision that calls the task queries itself
\* (src/app/tasks.tsx, src/unnamed/part_016): its useState cells, the
\* handler calls that are waiting on a promise, and shown, the call whose
\* result the tasks cell (screenTasks) holds
VARIABLES screenTasks, processingTaskIds, screenDeletingTaskId, searchQuery,
          debouncedSearchQuery, filterStatus, filterPriority, calls, nCalls,
          shown

screenVars ==
  <<screenTasks, processingTaskIds, screenDeletingTaskId, searchQuery,
    debouncedSearchQuery, filterStatus, filterPriority, calls, nCalls, shown>>

\* the create form: submitted is what the user had typed when Create was
\* last pressed, alert the title of the Alert the press raised ("" if none)
VARIABLES submitted, alert

formVars == <<submitted, alert>>

\* useAsyncState: the state cell, the initialState argument of the current
\* render, the execute calls that have not settled, and manual, whether
\* setLoading or reset was called while the oldest of them was in flight
VARIABLES asyncState, initialState, execs, nExecs, manual

asyncVars == <<asyncState, initialState, execs, nExecs, manual>>

\* useUIStore: the store's state, the 'ui-store' item of AsyncStorage, and
\* hydration, the item the persist middleware read when the store was
\* created and has yet to merge (<<>> once merged)
VARIABLES ui, uiStorage, hydration

storeVars == <<ui, uiStorage, hydration>>

libVars == <<asyncVars, storeVars>>

\* the variables of the components that do not go through the query cache
otherVars == <<screenVars, formVars, libVars>>

\* the variables of the mutation and query hooks, the table and last apart
hookVars ==
  <<hookFile, now, nextId, cache, fetching, stale, muts, nMuts, nFetch,
    deletingTaskId, currentDelete, observer, hist>>

vars == <<hookFile, now, db, nextId, cache, fetching, stale, muts, nMuts,
          nFetch, deletingTaskId, currentDelete, observer, last, hist,
          otherVars>>

\* ---------------------------------------------------------------- bounds
MaxMuts == 2
MaxFetches == 1
MaxNow == 3
MaxCalls == 3
MaxExecs == 2

\* ------------------------------------------------------------- constants
Undefined == -1
UndefinedStr == "undefined"
Null == 0
\* Date.now() is far above every autoincrement id; Epoch is the offset of
\* the model clock 'now' inside Date.now().
Epoch == 100

\* a due date later than every clock value of the model
FarDue == 1000

HookFiles == {"useTasks", "part_018"}
Lists == {1, 2}
Statuses == {"pending", "in_progress", "completed"}
Priorities == {"low", "medium", "high"}

\* ------------------------------------------------------------ task rows
Task(id, name, list_id, status, priority, is_completed, due, created, updated) ==
  [id |-> id, name |-> name, list_id |-> list_id, status |-> status,
   priority |-> priority, is_completed |-> is_completed, due_date |-> due,
   created_at |-> created, updated_at |-> updated,
   lastInsertRowId |-> Undefined]

\* rows the tasks table holds when the application starts
SeedTasks ==
  << Task(1, "a", 1, "pending", "medium", FALSE, FarDue, 0, 0),
     Task(2, "b", 1, "completed", "high", TRUE, Undefined, 0, 0) >>

\* the value db.insert(tasks).values(task).run() resolves to: a run result,
\* which has a lastInsertRowId and no task field (so .id reads undefined)
RunResult(rowid) ==
  [id |-> Undefined, name |-> UndefinedStr, list_id |-> Undefined,
   status |-> UndefinedStr, priority |-> UndefinedStr, is_completed |-> FALSE,
   due_date |-> Undefined, created_at |-> Undefined, updated_at |-> Undefined,
   lastInsertRowId |-> rowid]

DateNow == Epoch + now

\* ----------------------------------------------------------- query keys
Key(view, n, s) == [view |-> view, n |-> n, s |-> s]
tasksKey == Key("all", 0, "")
taskKey(id) == Key("task", id, "")
byListKey(listId) == Key("byList", listId, "")
byStatusKey(status) == Key("byStatus", 0, status)
byPriorityKey(priority) == Key("byPriority", 0, priority)
completedKey == Key("completed", 0, "")
upcomingKey == Key("upcoming", 0, "")
searchKey(searchTerm) == Key("search", 0, searchTerm)

\* the terms typed into the search box
SearchTerms == {"a", "b"}

\* ids a by-id query can be asked for: stored rows and rows created later
TaskIds == 1 .. (Len(SeedTasks) + MaxMuts)

\* the keys of the hooks called with a falsy parameter: id or list id 0,
\* status, priority or search term ''
FalsyKeys ==
  {taskKey(0), byListKey(0), byStatusKey(""), byPriorityKey(""), searchKey("")}

\* byList(undefined) is the key a list-less record is filed under
Keys ==
  {tasksKey, completedKey, upcomingKey}
    \cup {taskKey(i) : i \in TaskIds}
    \cup {byListKey(l) : l \in Lists \cup {Undefined}}
    \cup {byStatusKey(s) : s \in Statuses}
    \cup {byPriorityKey(p) : p \in Priorities}
    \cup {searchKey(t) : t \in SearchTerms}
    \cup FalsyKeys

\* ------------------------------------------------------- sequence helpers
MapSeq(s, F(_)) == [i \in 1 .. Len(s) |-> F(s[i])]

Ids(s) == {s[i].id : i \in 1 .. Len(s)}

\* Array.prototype.find: the first element that passes, or undefined
Find(s, Test(_)) ==
  LET hits == SelectSeq(s, Test)
  IN IF hits = <<>> THEN <<>> ELSE <<Head(hits)>>

\* ORDER BY key DESC; rows with equal keys stay in rowid order
RECURSIVE InsertDesc(_, _, _)
InsertDesc(s, t, fld) ==
  IF s = <<>> THEN <<t>>
  ELSE IF t[fld] > Head(s)[fld] THEN <<t>> \o s
       ELSE <<Head(s)>> \o InsertDesc(Tail(s), t, fld)

RECURSIVE SortDesc(_, _)
SortDesc(s, fld) ==
  IF s = <<>> THEN <<>>
  ELSE InsertDesc(SortDesc(SubSeq(s, 1, Len(s) - 1), fld), s[Len(s)], fld)

\* --------------------------------------------------------- cache store
\* A cache entry: st = "none" (no query object), "nodata" (a query exists,
\* its data is undefined) or "data".  The data of a list view is the task
\* sequence; the data of a by-id query is held as the one-element sequence
\* of its task.
NoQuery == [st |-> "none", val |-> <<>>]

getQueryData(c, k) ==
  IF k \in Keys /\ c[k].st = "data" THEN <<c[k].val>> ELSE <<>>

\* setQueryData(key, value): an undefined value writes nothing
setQueryData(c, k, v) ==
  IF v = <<>> THEN c ELSE [c EXCEPT ![k] = [st |-> "data", val |-> v[1]]]

\* setQueryData(key, updater)
setQueryDataWith(c, k, F(_, _)) == setQueryData(c, k, F(getQueryData(c, k), k))

\* setQueriesData({queryKey: taskKeys.tasks(), predicate: key[2] === view}, updater):
\* every query that exists in the cache and matches gets the updater applied
setQueriesData(c, view, F(_, _)) ==
  [k \in Keys |->
     IF k.view = view /\ c[k].st # "none"
     THEN setQueryDataWith(c, k, F)[k]
     ELSE c[k]]

\* an invalidation that marks nothing
invalidateQueries_None(st, c, ks) == st

\* invalidateQueries: the matching queries that exist are marked stale
invalidateQueries(st, c, ks) == st \cup {k \in ks : c[k].st # "none"}

\* ------------------------------------------------- storage collaborator
getAllTasks(d) == d
getTaskById(d, id) == Find(d, LAMBDA t : t.id = id)
getTasksByListId(d, listId) == SelectSeq(d, LAMBDA t : t.list_id = listId)
getTasksByStatus(d, status) == SelectSeq(d, LAMBDA t : t.status = status)
getTasksByPriority(d, priority) == SelectSeq(d, LAMBDA t : t.priority = priority)
getCompletedTasks(d) ==
  SortDesc(SelectSeq(d, LAMBDA t : t.is_completed), "updated_at")
getUpcomingTasks(d) ==
  SortDesc(SelectSeq(d, LAMBDA t : t.due_date > DateNow /\ ~t.is_completed),
           "due_date")

\* searchTasksByName: name LIKE '%term%' (ASCII case-insensitive), over the
\* names and terms of the model
NameLike ==
  {<<"a", "a">>, <<"b", "b">>, <<"Buy milk", "b">>, <<"Updated Task", "a">>}

searchTasksByName(d, searchTerm) ==
  SelectSeq(d, LAMBDA t : <<t.name, searchTerm>> \in NameLike)

\* createTask: the row gets the next autoincrement id, the column defaults
\* and the submitted fields
createTask(d, task) ==
  Append(d, Task(nextId, task.name, task.list_id, task.status, task.priority,
                 FALSE, task.due_date, DateNow, DateNow))

deleteTask(d, id) == SelectSeq(d, LAMBDA t : t.id # id)

toggleTaskCompletion(d, id, isCompleted) ==
  MapSeq(d, LAMBDA t : IF t.id = id
                       THEN [t EXCEPT !.is_completed = isCompleted,
                                      !.updated_at = DateNow]
                       ELSE t)

\* updateTask: the fields present in the partial record are set
updateTask(d, id, task) ==
  MapSeq(d, LAMBDA t :
    IF t.id = id
    THEN [t EXCEPT
            !.name = IF task.name = UndefinedStr THEN @ ELSE task.name,
            !.list_id = IF task.list_id = Undefined THEN @ ELSE task.list_id,
            !.status = IF task.status = UndefinedStr THEN @ ELSE task.status,
            !.priority = IF task.priority = UndefinedStr THEN @ ELSE task.priority,
            !.due_date = IF task.due_date = Undefined THEN @ ELSE task.due_date,
            !.updated_at = DateNow]
    ELSE t)

\* updateTaskStatus is imported by the hooks but queries/tasks.ts does not
\* define it; modelled from the storage interface of the specification
updateTaskStatus(d, id, status) ==
  MapSeq(d, LAMBDA t : IF t.id = id
                       THEN [t EXCEPT !.status = status,
                                      !.is_completed = (status = "completed"),
                                      !.updated_at = DateNow]
                       ELSE t)

\* the result of the query function bound to a key
queryFn(d, k) ==
  CASE k.view = "all" -> <<getAllTasks(d)>>
    [] k.view = "task" -> IF getTaskById(d, k.n) = <<>> THEN <<>>
                          ELSE << getTaskById(d, k.n) >>
    [] k.view = "byList" -> <<getTasksByListId(d, k.n)>>
    [] k.view = "byStatus" -> <<getTasksByStatus(d, k.s)>>
    [] k.view = "byPriority" -> <<getTasksByPriority(d, k.s)>>
    [] k.view = "completed" -> <<getCompletedTasks(d)>>
    [] k.view = "upcoming" -> <<getUpcomingTasks(d)>>
    [] k.view = "search" -> <<searchTasksByName(d, k.s)>>

\* ------------------------------------------------------------ mutations
\* The context a mutation's onMutate returns (the fields a hook does not
\* return are undefined), the variables it was called with, and two
\* history fields: pre, the cache when onMutate started, and clean, whether
\* no other operation has written the cache since.
NoContext ==
  [previousTasks |-> <<>>, optimisticTask |-> <<>>, previousTask |-> <<>>,
   previousTasksByList |-> <<>>, taskToDelete |-> <<>>]

Mutation(mid, kind, id, isCompleted, status, newTask, ctx) ==
  [mid |-> mid, kind |-> kind, id |-> id, isCompleted |-> isCompleted,
   status |-> status, newTask |-> newTask, startedAt |-> now, ctx |-> ctx,
   pre |-> cache, clean |-> TRUE]

Dirty(ms) == {[m EXCEPT !.clean = FALSE] : m \in ms}

\* last: the operation that produced the current state and the mutation it
\* belongs to; hist: whether some mutation has failed, and whether a fetch
\* has resolved after the first mutation began
Step(op, m) == [op |-> op, m |-> m, cb |-> "none", thrown |-> ""]

\* ------------------------------------------------ useMutation (observer)
\* What a mutation hook returns is the state of the mutation its latest
\* mutate() call started; an earlier mutation that is still running has lost
\* the observer, so its outcome does not reach the hook's state and the
\* callbacks passed to its mutate() call do not run.
Hooks == {"create", "update", "toggle", "delete", "status"}

NoError == ""
StorageErrors == {"SQLITE_ERROR"}

IdleObserver == [mid |-> 0, status |-> "idle", error |-> NoError]

\* mutate(): the hook observes the new mutation
ObserverMutate(kind, mid) ==
  [observer EXCEPT ![kind] = [mid |-> mid, status |-> "pending", error |-> NoError]]

\* the mutation settles: success or error with the error mutationFn threw
ObserverSettle(m, status, error) ==
  IF observer[m.kind].mid = m.mid
  THEN [observer EXCEPT ![m.kind] = [mid |-> m.mid, status |-> status, error |-> error]]
  ELSE observer

\* the callback of the mutate() call that runs when m settles
Callback(m, cb) == IF observer[m.kind].mid = m.mid THEN cb ELSE "none"

\* a settle step: mutationFn resolved (thrown = NoError) or threw, the
\* hook's onSuccess / onError ran, then the callback cb of the mutate() call
Settled(op, m, cb, thrown) == [op |-> op, m |-> m, cb |-> cb, thrown |-> thrown]

\* what CreateTaskModal submits and CreateTaskSchema lets through: the
\* modal always submits status 'pending'
NewTaskNames == {"Buy milk"}
NewTaskPriorities == {"medium"}
NewTaskInputs ==
  [name : NewTaskNames, list_id : Lists, priority : NewTaskPriorities,
   status : {"pending"}, due_date : {Undefined}]

\* ----------------------------------------------------------- useCreateTask
createOptimisticTask(newTask) ==
  Task(DateNow, newTask.name, newTask.list_id, newTask.status,
       newTask.priority, FALSE, newTask.due_date, DateNow, DateNow)

\* a faulty updater that appends the optimistic record
PrependTask_Append(old, t) ==
  IF old = <<>> THEN << <<t>> >> ELSE << old[1] \o <<t>> >>

\* the updater of onMutate: [optimisticTask, ...old], [optimisticTask] if !old
PrependTask(old, t) ==
  IF old = <<>> THEN << <<t>> >> ELSE << <<t>> \o old[1] >>

CreateOnMutateCache(c, newTask) ==
  LET optimisticTask == createOptimisticTask(newTask)
      c1 == setQueryDataWith(c, byListKey(newTask.list_id),
                             LAMBDA old, k : PrependTask(old, optimisticTask))
  IN setQueryDataWith(c1, tasksKey,
                      LAMBDA old, k : PrependTask(old, optimisticTask))

\* mutate(newTask): the onMutate of useCreateTask
CreateMutate(newTask) ==
  /\ nMuts < MaxMuts
  /\ LET ctx == [NoContext EXCEPT
                   !.previousTasks = getQueryData(cache, byListKey(newTask.list_id)),
                   !.optimisticTask = <<createOptimisticTask(newTask)>>]
         m == Mutation(nMuts + 1, "create", Undefined, FALSE, "", <<newTask>>, ctx)
     IN /\ fetching' = fetching \ {byListKey(newTask.list_id)}
        /\ cache' = CreateOnMutateCache(cache, newTask)
        /\ muts' = Dirty(muts) \cup {m}
        /\ last' = Step("createOnMutate", <<m>>)
  /\ nMuts' = nMuts + 1
  /\ observer' = ObserverMutate("create", nMuts + 1)
  /\ hist' = hist
  /\ UNCHANGED <<hookFile, now, db, nextId, stale, nFetch, deletingTaskId,
                 currentDelete>>

CreateOnMutate(newTask) == CreateMutate(newTask) /\ UNCHANGED otherVars

CreateOnErrorCache(c, m) ==
  IF m.ctx.previousTasks # <<>>
  THEN setQueryData(c, byListKey(m.newTask[1].list_id), m.ctx.previousTasks)
  ELSE c

CreateOnError(m) ==
  /\ m \in muts /\ m.kind = "create"
  /\ now > m.startedAt
  /\ cache' = CreateOnErrorCache(cache, m)
  /\ muts' = Dirty(muts \ {m})
  /\ \E e \in StorageErrors :
       /\ observer' = ObserverSettle(m, "error", e)
       /\ last' = Settled("createOnError", <<m>>, Callback(m, "onError"), e)
  /\ hist' = [hist EXCEPT !.failed = TRUE]
  /\ UNCHANGED <<otherVars, hookFile, now, db, nextId, fetching, stale, nMuts, nFetch,
                 deletingTaskId, currentDelete>>

\* the updater of onSuccess; newTaskData is what createTask resolved to
UpdateTaskInQuery(old, newTaskData) ==
  IF old = <<>> THEN <<>>
  ELSE LET updatedTasks ==
             MapSeq(old[1], LAMBDA task :
                      IF task.id = DateNow
                      THEN [newTaskData EXCEPT !.id = newTaskData.id]
                      ELSE task)
           newTask == Find(updatedTasks, LAMBDA task : task.id = newTaskData.id)
           otherTasks == SelectSeq(updatedTasks,
                                   LAMBDA task : task.id # newTaskData.id)
       IN IF newTask # <<>> THEN << newTask \o otherTasks >>
          ELSE <<updatedTasks>>

CreateOnSuccessCache(c, m, newTaskData) ==
  LET c1 == setQueryDataWith(c, byListKey(m.newTask[1].list_id),
                             LAMBDA old, k : UpdateTaskInQuery(old, newTaskData))
  IN setQueryDataWith(c1, tasksKey,
                      LAMBDA old, k : UpdateTaskInQuery(old, newTaskData))

CreateOnSuccess(m) ==
  /\ m \in muts /\ m.kind = "create"
  /\ now > m.startedAt
  /\ db' = createTask(db, m.newTask[1])
  /\ nextId' = nextId + 1
  /\ cache' = CreateOnSuccessCache(cache, m, RunResult(nextId))
  /\ stale' = invalidateQueries(stale, cache', {completedKey, upcomingKey})
  /\ muts' = Dirty(muts \ {m})
  /\ observer' = ObserverSettle(m, "success", NoError)
  /\ last' = Settled("createOnSuccess", <<m>>, Callback(m, "onSuccess"), NoError)
  /\ hist' = hist
  /\ UNCHANGED <<otherVars, hookFile, now, fetching, nMuts, nFetch, deletingTaskId,
                 currentDelete>>

\* ----------------------------------------------------------- useUpdateTask
\* the partial records an update is called with
UpdateInputs ==
  {[name |-> "Updated Task", list_id |-> Undefined, status |-> UndefinedStr,
    priority |-> UndefinedStr, due_date |-> Undefined]}

\* an onSuccess that invalidates the derived views only
UpdateInvalidated_Derived(id, task) == {completedKey, upcomingKey}

\* onSuccess: invalidateQueries matches by key prefix, and taskKeys.tasks()
\* is a prefix of every task key
UpdateInvalidated(id, task) ==
  {k \in Keys : k = taskKey(id)}
    \cup Keys
    \cup (IF task.list_id # Undefined /\ task.list_id # 0
          THEN {byListKey(task.list_id)} ELSE {})
    \cup (IF task.status # UndefinedStr /\ task.status # ""
          THEN {byStatusKey(task.status)} ELSE {})
    \cup (IF task.priority # UndefinedStr /\ task.priority # ""
          THEN {byPriorityKey(task.priority)} ELSE {})
    \cup {completedKey, upcomingKey}

\* mutate({id, task}): the hook has no onMutate, mutationFn is called
UpdateMutate(id, task) ==
  /\ nMuts < MaxMuts
  /\ LET m == Mutation(nMuts + 1, "update", id, FALSE, "", <<task>>, NoContext)
     IN /\ muts' = muts \cup {m}
        /\ last' = Step("updateMutate", <<m>>)
  /\ nMuts' = nMuts + 1
  /\ observer' = ObserverMutate("update", nMuts + 1)
  /\ hist' = hist
  /\ UNCHANGED <<otherVars, hookFile, now, db, nextId, cache, fetching, stale, nFetch,
                 deletingTaskId, currentDelete>>

\* updateTask threw: the hook has no onError
UpdateOnError(m) ==
  /\ m \in muts /\ m.kind = "update"
  /\ now > m.startedAt
  /\ muts' = muts \ {m}
  /\ \E e \in StorageErrors :
       /\ observer' = ObserverSettle(m, "error", e)
       /\ last' = Settled("updateOnError", <<m>>, Callback(m, "onError"), e)
  /\ hist' = [hist EXCEPT !.failed = TRUE]
  /\ UNCHANGED <<otherVars, hookFile, now, db, nextId, cache, fetching, stale, nMuts,
                 nFetch, deletingTaskId, currentDelete>>

UpdateOnSuccess(m) ==
  /\ m \in muts /\ m.kind = "update"
  /\ now > m.startedAt
  /\ db' = updateTask(db, m.id, m.newTask[1])
  /\ stale' = invalidateQueries(stale, cache, UpdateInvalidated(m.id, m.newTask[1]))
  /\ muts' = muts \ {m}
  /\ observer' = ObserverSettle(m, "success", NoError)
  /\ last' = Settled("updateOnSuccess", <<m>>, Callback(m, "onSuccess"), NoError)
  /\ hist' = hist
  /\ UNCHANGED <<otherVars, hookFile, now, nextId, cache, fetching, nMuts, nFetch,
                 deletingTaskId, currentDelete>>

\* ------------------------------------------------- the task screen (UI)
\* the records the task list can render: the contents of the list views
ListViews == {"all", "byList", "byStatus", "byPriority"}

DisplayedTasks ==
  UNION {{cache[k].val[i] : i \in 1 .. Len(cache[k].val)} :
           k \in {kk \in Keys : kk.view \in ListViews /\ cache[kk].st = "data"}}

\* TaskList renders every TaskItem with isProcessing={false} and
\* isDeleting={deletingTaskId === item.id}
isProcessing(task) == FALSE
isDeleting(task) == deletingTaskId = task.id

\* --------------------------------------------------- useToggleTaskCompletion
updateTaskCompletionStatus(task, isCompleted) ==
  [task EXCEPT !.is_completed = isCompleted,
               !.status = IF isCompleted THEN "completed" ELSE "pending",
               !.updated_at = DateNow]

\* the patch the toggle applies to a record: useTasks.ts sets is_completed
\* and updated_at, part_018 uses updateTaskCompletionStatus
TogglePatch(task, isCompleted) ==
  IF hookFile = "useTasks"
  THEN [task EXCEPT !.is_completed = isCompleted, !.updated_at = DateNow]
  ELSE updateTaskCompletionStatus(task, isCompleted)

\* the byStatus updaters read the filter from query?.queryKey?.[3], where
\* query is their second parameter; setQueriesData calls an updater with the
\* old data only, so query is undefined and so is the filter
currentFilter == UndefinedStr

filterTasksByStatus(tasks, filter) ==
  IF filter = UndefinedStr \/ filter = "" \/ filter = "all" THEN tasks
  ELSE SelectSeq(tasks, LAMBDA task :
         CASE filter = "completed" -> task.is_completed
           [] filter = "pending" -> ~task.is_completed /\ task.status = "pending"
           [] filter = "in_progress" -> task.status = "in_progress"
           [] OTHER -> TRUE)

\* old.map(task => task.id === id ? patch(task) : task), undefined kept
MapPatch(old, id, Patch(_)) ==
  IF old = <<>> THEN <<>>
  ELSE << MapSeq(old[1], LAMBDA task : IF task.id = id THEN Patch(task) ELSE task) >>

\* the by-id entry is patched whatever id its record carries
PatchOne(old, Patch(_)) ==
  IF old = <<>> THEN <<>> ELSE << <<Patch(old[1][1])>> >>

ToggleOnMutateCache(c, id, isCompleted) ==
  LET c1 == setQueryDataWith(c, taskKey(id),
              LAMBDA old, k : PatchOne(old, LAMBDA t : TogglePatch(t, isCompleted)))
      c2 == setQueryDataWith(c1, tasksKey,
              LAMBDA old, k : MapPatch(old, id, LAMBDA t : TogglePatch(t, isCompleted)))
      c3 == setQueriesData(c2, "byList",
              LAMBDA old, k : MapPatch(old, id, LAMBDA t : TogglePatch(t, isCompleted)))
  IN IF hookFile = "useTasks" THEN c3
     ELSE setQueriesData(c3, "byStatus",
            LAMBDA old, k :
              IF old = <<>> THEN <<>>
              ELSE << filterTasksByStatus(
                        MapPatch(old, id, LAMBDA t : TogglePatch(t, isCompleted))[1],
                        currentFilter) >>)

\* handleToggleTask: the new value is the negation of the rendered one
ToggleOnMutate(task) ==
  /\ nMuts < MaxMuts
  /\ task \in DisplayedTasks
  /\ ~(isDeleting(task) \/ isProcessing(task))
  /\ LET ctx == [NoContext EXCEPT
                   !.previousTask = getQueryData(cache, taskKey(task.id))]
         m == Mutation(nMuts + 1, "toggle", task.id, ~task.is_completed, "",
                       <<>>, ctx)
     IN /\ fetching' = fetching \ {taskKey(task.id)}
        /\ cache' = ToggleOnMutateCache(cache, task.id, ~task.is_completed)
        /\ muts' = Dirty(muts) \cup {m}
        /\ last' = Step("toggleOnMutate", <<m>>)
  /\ nMuts' = nMuts + 1
  /\ observer' = ObserverMutate("toggle", nMuts + 1)
  /\ hist' = hist
  /\ UNCHANGED <<otherVars, hookFile, now, db, nextId, stale, nFetch, deletingTaskId,
                 currentDelete>>

ToggleOnErrorCache(c, m) ==
  IF m.ctx.previousTask # <<>>
  THEN setQueryData(c, taskKey(m.id), m.ctx.previousTask)
  ELSE c

ToggleOnError(m) ==
  /\ m \in muts /\ m.kind = "toggle"
  /\ now > m.startedAt
  /\ cache' = ToggleOnErrorCache(cache, m)
  /\ muts' = Dirty(muts \ {m})
  /\ \E e \in StorageErrors :
       /\ observer' = ObserverSettle(m, "error", e)
       /\ last' = Settled("toggleOnError", <<m>>, Callback(m, "onError"), e)
  /\ hist' = [hist EXCEPT !.failed = TRUE]
  /\ UNCHANGED <<otherVars, hookFile, now, db, nextId, fetching, stale, nMuts, nFetch,
                 deletingTaskId, currentDelete>>

\* onSuccess: useTasks.ts invalidates completed and upcoming, part_018 also
\* every byStatus and byPriority query
SuccessInvalidated ==
  IF hookFile = "useTasks" THEN {completedKey, upcomingKey}
  ELSE {completedKey, upcomingKey}
         \cup {k \in Keys : k.view \in {"byStatus", "byPriority"}}

ToggleOnSuccess(m) ==
  /\ m \in muts /\ m.kind = "toggle"
  /\ now > m.startedAt
  /\ db' = toggleTaskCompletion(db, m.id, m.isCompleted)
  /\ stale' = invalidateQueries(stale, cache, SuccessInvalidated)
  /\ muts' = muts \ {m}
  /\ observer' = ObserverSettle(m, "success", NoError)
  /\ last' = Settled("toggleOnSuccess", <<m>>, Callback(m, "onSuccess"), NoError)
  /\ hist' = hist
  /\ UNCHANGED <<otherVars, hookFile, now, nextId, cache, fetching, nMuts, nFetch,
                 deletingTaskId, currentDelete>>

\* ------------------------------------------------------------ useDeleteTask
removeTaskFromQuery_DropHead(old, taskId) ==
  IF old = <<>> THEN << <<>> >>
  ELSE << IF old[1] = <<>> THEN <<>> ELSE Tail(old[1]) >>

removeTaskFromQuery(old, taskId) ==
  IF old = <<>> THEN << <<>> >>
  ELSE << SelectSeq(old[1], LAMBDA task : task.id # taskId) >>

\* allTasks?.find(task => task.id === taskId)
TaskToDelete(c, taskId) ==
  IF getQueryData(c, tasksKey) = <<>> THEN <<>>
  ELSE Find(getQueryData(c, tasksKey)[1], LAMBDA task : task.id = taskId)

\* setQueryData(taskKeys.task(taskId), undefined) writes nothing
DeleteOnMutateCache(c, taskId) ==
  LET taskToDelete == TaskToDelete(c, taskId)
      c0 == setQueryData(c, taskKey(taskId), <<>>)
      c1 == setQueryDataWith(c0, tasksKey,
                             LAMBDA old, k : removeTaskFromQuery(old, taskId))
      c2 == IF taskToDelete # <<>>
            THEN setQueryDataWith(c1, byListKey(taskToDelete[1].list_id),
                                  LAMBDA old, k : removeTaskFromQuery(old, taskId))
            ELSE c1
  IN setQueriesData(c2, "byList",
                    LAMBDA old, k : removeTaskFromQuery(old, taskId))

\* handleDeleteTask, after the confirmation dialog
DeleteOnMutate(task) ==
  /\ nMuts < MaxMuts
  /\ task \in DisplayedTasks
  /\ ~isDeleting(task)
  /\ LET taskToDelete == TaskToDelete(cache, task.id)
         ctx == [NoContext EXCEPT
                   !.previousTask = getQueryData(cache, taskKey(task.id)),
                   !.previousTasksByList =
                       IF taskToDelete # <<>>
                       THEN getQueryData(cache, byListKey(taskToDelete[1].list_id))
                       ELSE <<>>,
                   !.taskToDelete = taskToDelete]
         m == Mutation(nMuts + 1, "delete", task.id, FALSE, "", <<>>, ctx)
     IN /\ fetching' = fetching \ {taskKey(task.id)}
        /\ cache' = DeleteOnMutateCache(cache, task.id)
        /\ muts' = Dirty(muts) \cup {m}
        /\ last' = Step("deleteOnMutate", <<m>>)
  /\ nMuts' = nMuts + 1
  /\ deletingTaskId' = task.id
  /\ currentDelete' = nMuts + 1
  /\ observer' = ObserverMutate("delete", nMuts + 1)
  /\ hist' = hist
  /\ UNCHANGED <<otherVars, hookFile, now, db, nextId, stale, nFetch>>

DeleteOnErrorCache(c, m) ==
  LET c1 == IF m.ctx.previousTask # <<>>
            THEN setQueryData(c, taskKey(m.id), m.ctx.previousTask)
            ELSE c
      c2 == IF m.ctx.previousTasksByList # <<>> /\ m.ctx.taskToDelete # <<>>
            THEN setQueryData(c1, byListKey(m.ctx.taskToDelete[1].list_id),
                              m.ctx.previousTasksByList)
            ELSE c1
  IN IF m.ctx.taskToDelete # <<>>
     THEN setQueryDataWith(c2, tasksKey,
            LAMBDA old, k : PrependTask(old, m.ctx.taskToDelete[1]))
     ELSE c2

\* the callbacks passed to mutate() run only for the hook's latest call
DeleteSettledUI(m) ==
  deletingTaskId' = IF currentDelete = m.mid THEN Null ELSE deletingTaskId

DeleteOnError(m) ==
  /\ m \in muts /\ m.kind = "delete"
  /\ now > m.startedAt
  /\ cache' = DeleteOnErrorCache(cache, m)
  /\ muts' = Dirty(muts \ {m})
  /\ DeleteSettledUI(m)
  /\ \E e \in StorageErrors :
       /\ observer' = ObserverSettle(m, "error", e)
       /\ last' = Settled("deleteOnError", <<m>>, Callback(m, "onError"), e)
  /\ hist' = [hist EXCEPT !.failed = TRUE]
  /\ UNCHANGED <<otherVars, hookFile, now, db, nextId, fetching, stale, nMuts, nFetch,
                 currentDelete>>

DeleteOnSuccess(m) ==
  /\ m \in muts /\ m.kind = "delete"
  /\ now > m.startedAt
  /\ db' = deleteTask(db, m.id)
  /\ stale' = invalidateQueries(stale, cache, {completedKey, upcomingKey})
  /\ muts' = muts \ {m}
  /\ DeleteSettledUI(m)
  /\ observer' = ObserverSettle(m, "success", NoError)
  /\ last' = Settled("deleteOnSuccess", <<m>>, Callback(m, "onSuccess"), NoError)
  /\ hist' = hist
  /\ UNCHANGED <<otherVars, hookFile, now, nextId, cache, fetching, nMuts, nFetch,
                 currentDelete>>

\* ------------------------------------------------------ useUpdateTaskStatus
\* the patch of a list record: useTasks.ts sets status and is_completed,
\* part_018 passes the record through updateTaskCompletionStatus
StatusPatch(task, status) ==
  IF hookFile = "useTasks"
  THEN [task EXCEPT !.status = status, !.is_completed = (status = "completed")]
  ELSE updateTaskCompletionStatus([task EXCEPT !.status = status],
                                  status = "completed")

StatusOnMutateCache(c, id, status) ==
  LET c1 == setQueryDataWith(c, tasksKey,
              LAMBDA old, k : MapPatch(old, id, LAMBDA t : StatusPatch(t, status)))
      c2 == setQueriesData(c1, "byList",
              LAMBDA old, k : MapPatch(old, id, LAMBDA t : StatusPatch(t, status)))
      c3 == IF hookFile = "useTasks" THEN c2
            ELSE setQueriesData(c2, "byStatus",
                   LAMBDA old, k :
                     IF old = <<>> THEN <<>>
                     ELSE << filterTasksByStatus(
                               MapPatch(old, id, LAMBDA t : StatusPatch(t, status))[1],
                               currentFilter) >>)
      c4 == IF hookFile = "useTasks" THEN c3
            ELSE setQueriesData(c3, "byPriority",
                   LAMBDA old, k : MapPatch(old, id, LAMBDA t : StatusPatch(t, status)))
  IN setQueryDataWith(c4, taskKey(id),
       LAMBDA old, k :
         PatchOne(old, LAMBDA t : [t EXCEPT !.status = status,
                                            !.is_completed = (status = "completed")]))

\* handleStatusChange
StatusOnMutate(task, status) ==
  /\ nMuts < MaxMuts
  /\ task \in DisplayedTasks
  /\ ~(isDeleting(task) \/ isProcessing(task))
  /\ LET ctx == [NoContext EXCEPT
                   !.previousTasks = getQueryData(cache, tasksKey),
                   !.previousTasksByList = getQueryData(cache, byListKey(task.id))]
         m == Mutation(nMuts + 1, "status", task.id, FALSE, status, <<>>, ctx)
     IN /\ fetching' = {}
        /\ cache' = StatusOnMutateCache(cache, task.id, status)
        /\ muts' = Dirty(muts) \cup {m}
        /\ last' = Step("statusOnMutate", <<m>>)
  /\ nMuts' = nMuts + 1
  /\ observer' = ObserverMutate("status", nMuts + 1)
  /\ hist' = hist
  /\ UNCHANGED <<otherVars, hookFile, now, db, nextId, stale, nFetch, deletingTaskId,
                 currentDelete>>

StatusOnErrorCache(c, m) ==
  LET c1 == IF m.ctx.previousTasks # <<>>
            THEN setQueryData(c, tasksKey, m.ctx.previousTasks)
            ELSE c
  IN IF m.ctx.previousTasksByList # <<>>
     THEN setQueryData(c1, byListKey(m.id), m.ctx.previousTasksByList)
     ELSE c1

StatusOnError(m) ==
  /\ m \in muts /\ m.kind = "status"
  /\ now > m.startedAt
  /\ cache' = StatusOnErrorCache(cache, m)
  /\ muts' = Dirty(muts \ {m})
  /\ \E e \in StorageErrors :
       /\ observer' = ObserverSettle(m, "error", e)
       /\ last' = Settled("statusOnError", <<m>>, Callback(m, "onError"), e)
  /\ hist' = [hist EXCEPT !.failed = TRUE]
  /\ UNCHANGED <<otherVars, hookFile, now, db, nextId, fetching, stale, nMuts, nFetch,
                 deletingTaskId, currentDelete>>

StatusOnSuccess(m) ==
  /\ m \in muts /\ m.kind = "status"
  /\ now > m.startedAt
  /\ db' = updateTaskStatus(db, m.id, m.status)
  /\ stale' = invalidateQueries(stale, cache, SuccessInvalidated)
  /\ muts' = muts \ {m}
  /\ observer' = ObserverSettle(m, "success", NoError)
  /\ last' = Settled("statusOnSuccess", <<m>>, Callback(m, "onSuccess"), NoError)
  /\ hist' = hist
  /\ UNCHANGED <<otherVars, hookFile, now, nextId, cache, fetching, nMuts, nFetch,
                 deletingTaskId, currentDelete>>

\* ------------------------------------------------------------ query hooks
\* the enabled option of the hook of a key: !!id, !!listId, !!status,
\* !!priority, !!searchTerm && searchTerm.length > 0; the hooks without a
\* parameter have none
Enabled_Always(k) == TRUE

Enabled(k) ==
  CASE k.view \in {"task", "byList"} -> k.n # 0 /\ k.n # Undefined
    [] k.view \in {"byStatus", "byPriority"} -> k.s # ""
    [] k.view = "search" -> k.s # "" /\ k.s # UndefinedStr
    [] OTHER -> TRUE

\* the keys whose hook is enabled
FetchableKeys == {k \in Keys : Enabled(k)}

\* a component renders the hook of key k: useQuery builds the query if the
\* cache has none; an enabled hook calls the query function when the query
\* has no data and is not fetching, and, with data, when the data is older
\* than the client's staleTime (refetch)
UseQuery(k) ==
  /\ k \in Keys
  /\ cache' = IF cache[k].st = "none"
              THEN [cache EXCEPT ![k] = [st |-> "nodata", val |-> <<>>]]
              ELSE cache
  /\ \E refetch \in BOOLEAN :
       LET fetch == /\ Enabled(k) /\ k \notin fetching
                    /\ (cache[k].st # "data" \/ refetch)
       IN /\ fetch => nFetch < MaxFetches
          /\ cache[k].st # "data" => ~refetch
          /\ fetching' = IF fetch THEN fetching \cup {k} ELSE fetching
          /\ nFetch' = IF fetch THEN nFetch + 1 ELSE nFetch
  /\ last' = Step("useQuery", <<[key |-> k, absent |-> cache[k].st = "none"]>>)
  /\ hist' = hist
  /\ UNCHANGED <<otherVars, observer, hookFile, now, db, nextId, stale, muts,
                 nMuts, deletingTaskId, currentDelete>>

\* refetch of a query that exists (pull-to-refresh, remount, the refetch
\* that follows an invalidation): the query function is called again
FetchStart(k) ==
  /\ k \in FetchableKeys /\ k \notin fetching
  /\ cache[k].st # "none"
  /\ nFetch < MaxFetches
  /\ nFetch' = nFetch + 1
  /\ fetching' = fetching \cup {k}
  /\ last' = Step("fetchStart", <<>>)
  /\ hist' = hist
  /\ UNCHANGED <<otherVars, observer, hookFile, now, db, nextId, cache, stale, muts, nMuts,
                 deletingTaskId, currentDelete>>

\* the query function resolves: it reads the table after its latency and
\* the result becomes the data of the query
FetchResolve(k) ==
  /\ k \in fetching
  /\ fetching' = fetching \ {k}
  /\ cache' = setQueryData(cache, k, queryFn(db, k))
  /\ stale' = stale \ {k}
  /\ muts' = Dirty(muts)
  /\ last' = Step("fetchResolve", <<>>)
  /\ hist' = [hist EXCEPT !.fetched = hist.fetched \/ nMuts > 0]
  /\ UNCHANGED <<otherVars, observer, hookFile, now, db, nextId, nMuts, nFetch, deletingTaskId,
                 currentDelete>>

\* ------------------------------------------------------------------ clock
\* time is only observed by a mutation in flight
Tick ==
  /\ now < MaxNow
  /\ muts # {}
  /\ now' = now + 1
  /\ last' = Step("tick", <<>>)
  /\ hist' = hist
  /\ UNCHANGED <<otherVars, observer, hookFile, db, nextId, cache, fetching, stale, muts, nMuts,
                 nFetch, deletingTaskId, currentDelete>>

\* ------------------------------------ TasksScreen without the query hooks
\* the list the screen was opened for (listIdNumber)
listIdNumber == 1

\* .filter(task => task.list_id === listIdNumber)
OfCurrentList(rows) == SelectSeq(rows, LAMBDA t : t.list_id = listIdNumber)

\* a handler call that is waiting: pc is the await it is at
Call(cid, kind, id, isCompleted, param, pc) ==
  [cid |-> cid, kind |-> kind, id |-> id, isCompleted |-> isCompleted,
   param |-> param, pc |-> pc]

RenderedTasks == {screenTasks[i] : i \in 1 .. Len(screenTasks)}

\* setProcessingTaskIds(prev => new Set(prev).add(id))
AddMarker(ids, id) == ids \cup {id}

\* a faulty release that leaves the marker in place
ReleaseMarker_Keep(ids, id) == ids

\* finally: setProcessingTaskIds(prev => { newSet.delete(id); return newSet })
ReleaseMarker(ids, id) == ids \ {id}

\* handleToggleTask up to its first await; TaskItem calls it unless the item
\* is deleting or processing, and the handler returns at once when the id is
\* in processingTaskIds
ScreenToggleStart(task) ==
  /\ nCalls < MaxCalls
  /\ task \in RenderedTasks
  /\ ~(screenDeletingTaskId = task.id \/ task.id \in processingTaskIds)
  /\ task.id \notin processingTaskIds
  /\ processingTaskIds' = AddMarker(processingTaskIds, task.id)
  /\ calls' = calls \cup
       {Call(nCalls + 1, "toggle", task.id, ~task.is_completed, "", "storage")}
  /\ nCalls' = nCalls + 1
  /\ last' = Step("screenToggleStart", <<>>)
  /\ UNCHANGED <<hookVars, formVars, libVars, db, screenTasks, screenDeletingTaskId, searchQuery,
                 debouncedSearchQuery, filterStatus, filterPriority, shown>>

\* toggleTaskCompletion resolved: the handler goes on to getTasksByListId
ScreenToggleResolved(c) ==
  /\ c \in calls /\ c.kind = "toggle" /\ c.pc = "storage"
  /\ db' = toggleTaskCompletion(db, c.id, c.isCompleted)
  /\ calls' = (calls \ {c}) \cup {[c EXCEPT !.pc = "refresh"]}
  /\ last' = Step("screenToggleResolved", <<c>>)
  /\ UNCHANGED <<hookVars, formVars, libVars, screenTasks, processingTaskIds, screenDeletingTaskId,
                 searchQuery, debouncedSearchQuery, filterStatus,
                 filterPriority, nCalls, shown>>

\* getTasksByListId resolved: setTasks, the success toast, then finally
ScreenToggleRefreshed(c) ==
  /\ c \in calls /\ c.kind = "toggle" /\ c.pc = "refresh"
  /\ screenTasks' = getTasksByListId(db, listIdNumber)
  /\ shown' = [kind |-> "list", param |-> ""]
  /\ processingTaskIds' = ReleaseMarker(processingTaskIds, c.id)
  /\ calls' = calls \ {c}
  /\ last' = Step("screenToggleRefreshed", <<c>>)
  /\ UNCHANGED <<hookVars, formVars, libVars, db, screenDeletingTaskId, searchQuery,
                 debouncedSearchQuery, filterStatus, filterPriority, nCalls>>

\* either await threw: catch shows the error toast, then finally
ScreenToggleThrew(c) ==
  /\ c \in calls /\ c.kind = "toggle"
  /\ processingTaskIds' = ReleaseMarker(processingTaskIds, c.id)
  /\ calls' = calls \ {c}
  /\ last' = Step("screenToggleThrew", <<c>>)
  /\ UNCHANGED <<hookVars, formVars, libVars, db, screenTasks, screenDeletingTaskId, searchQuery,
                 debouncedSearchQuery, filterStatus, filterPriority, nCalls,
                 shown>>

\* handleDeleteTask after the confirmation, up to its first await
ScreenDeleteStart(task) ==
  /\ nCalls < MaxCalls
  /\ task \in RenderedTasks
  /\ screenDeletingTaskId # task.id
  /\ screenDeletingTaskId' = task.id
  /\ calls' = calls \cup {Call(nCalls + 1, "delete", task.id, FALSE, "", "storage")}
  /\ nCalls' = nCalls + 1
  /\ last' = Step("screenDeleteStart", <<>>)
  /\ UNCHANGED <<hookVars, formVars, libVars, db, screenTasks, processingTaskIds, searchQuery,
                 debouncedSearchQuery, filterStatus, filterPriority, shown>>

ScreenDeleteResolved(c) ==
  /\ c \in calls /\ c.kind = "delete" /\ c.pc = "storage"
  /\ db' = deleteTask(db, c.id)
  /\ calls' = (calls \ {c}) \cup {[c EXCEPT !.pc = "refresh"]}
  /\ last' = Step("screenDeleteResolved", <<c>>)
  /\ UNCHANGED <<hookVars, formVars, libVars, screenTasks, processingTaskIds, screenDeletingTaskId,
                 searchQuery, debouncedSearchQuery, filterStatus,
                 filterPriority, nCalls, shown>>

ScreenDeleteRefreshed(c) ==
  /\ c \in calls /\ c.kind = "delete" /\ c.pc = "refresh"
  /\ screenTasks' = getTasksByListId(db, listIdNumber)
  /\ shown' = [kind |-> "list", param |-> ""]
  /\ screenDeletingTaskId' = Null
  /\ calls' = calls \ {c}
  /\ last' = Step("screenDeleteRefreshed", <<c>>)
  /\ UNCHANGED <<hookVars, formVars, libVars, db, processingTaskIds, searchQuery,
                 debouncedSearchQuery, filterStatus, filterPriority, nCalls>>

ScreenDeleteThrew(c) ==
  /\ c \in calls /\ c.kind = "delete"
  /\ screenDeletingTaskId' = Null
  /\ calls' = calls \ {c}
  /\ last' = Step("screenDeleteThrew", <<c>>)
  /\ UNCHANGED <<hookVars, formVars, libVars, db, screenTasks, processingTaskIds, searchQuery,
                 debouncedSearchQuery, filterStatus, filterPriority, nCalls,
                 shown>>

\* the TextInput: onChangeText={setSearchQuery}
ScreenType(query) ==
  /\ query # searchQuery
  /\ searchQuery' = query
  /\ last' = Step("screenType", <<>>)
  /\ UNCHANGED <<hookVars, formVars, libVars, db, screenTasks, processingTaskIds,
                 screenDeletingTaskId, debouncedSearchQuery, filterStatus,
                 filterPriority, calls, nCalls, shown>>

\* the search text stayed the same for the debounce delay: useDebounce sets
\* the debounced value and the effect calls handleSearch with it, which runs
\* up to its await (an empty query loads the list, a term passes
\* validateFormInput(query, 1, 100))
ScreenDebounced ==
  /\ nCalls < MaxCalls
  /\ debouncedSearchQuery # searchQuery
  /\ debouncedSearchQuery' = searchQuery
  /\ calls' = calls \cup {Call(nCalls + 1, "search", Undefined, FALSE, searchQuery, "load")}
  /\ nCalls' = nCalls + 1
  /\ last' = Step("screenDebounced", <<>>)
  /\ UNCHANGED <<hookVars, formVars, libVars, db, screenTasks, processingTaskIds,
                 screenDeletingTaskId, searchQuery, filterStatus,
                 filterPriority, shown>>

\* handleStatusFilter up to its await
ScreenStatusFilter(status) ==
  /\ nCalls < MaxCalls
  /\ filterStatus' = status
  /\ calls' = calls \cup {Call(nCalls + 1, "status", Undefined, FALSE, status, "load")}
  /\ nCalls' = nCalls + 1
  /\ last' = Step("screenStatusFilter", <<>>)
  /\ UNCHANGED <<hookVars, formVars, libVars, db, screenTasks, processingTaskIds,
                 screenDeletingTaskId, searchQuery, debouncedSearchQuery,
                 filterPriority, shown>>

\* handlePriorityFilter up to its await
ScreenPriorityFilter(priority) ==
  /\ nCalls < MaxCalls
  /\ filterPriority' = priority
  /\ calls' = calls \cup {Call(nCalls + 1, "priority", Undefined, FALSE, priority, "load")}
  /\ nCalls' = nCalls + 1
  /\ last' = Step("screenPriorityFilter", <<>>)
  /\ UNCHANGED <<hookVars, formVars, libVars, db, screenTasks, processingTaskIds,
                 screenDeletingTaskId, searchQuery, debouncedSearchQuery,
                 filterStatus, shown>>

\* what the awaited query of a search or filter call resolves to, after the
\* handler's filter on the current list
LoadResult(d, c) ==
  IF c.param = "" \/ c.param = "all" THEN getTasksByListId(d, listIdNumber)
  ELSE CASE c.kind = "search" -> OfCurrentList(searchTasksByName(d, c.param))
         [] c.kind = "status" -> OfCurrentList(getTasksByStatus(d, c.param))
         [] c.kind = "priority" -> OfCurrentList(getTasksByPriority(d, c.param))

\* the awaited query resolved: setTasks(result)
ScreenLoadResolved(c) ==
  /\ c \in calls /\ c.pc = "load"
  /\ screenTasks' = LoadResult(db, c)
  /\ shown' = [kind |-> c.kind, param |-> c.param]
  /\ calls' = calls \ {c}
  /\ last' = Step("screenLoadResolved", <<c>>)
  /\ UNCHANGED <<hookVars, formVars, libVars, db, processingTaskIds, screenDeletingTaskId,
                 searchQuery, debouncedSearchQuery, filterStatus,
                 filterPriority, nCalls>>

\* the awaited query threw: setError
ScreenLoadThrew(c) ==
  /\ c \in calls /\ c.pc = "load"
  /\ calls' = calls \ {c}
  /\ last' = Step("screenLoadThrew", <<c>>)
  /\ UNCHANGED <<hookVars, formVars, libVars, db, screenTasks, processingTaskIds,
                 screenDeletingTaskId, searchQuery, debouncedSearchQuery,
                 filterStatus, filterPriority, nCalls, shown>>

\* ------------------------------------------------------ create-task form
\* A text is kept as the number of blanks before its first non-blank
\* character, the number of characters from its first to its last non-blank
\* one, and the number of blanks after that; a text of blanks only has
\* body 0 and its blanks counted in lead.
Text(lead, body, trail) == [lead |-> lead, body |-> body, trail |-> trail]

\* String.prototype.length and String.prototype.trim
Length(t) == t.lead + t.body + t.trail
trim(t) == Text(0, t.body, 0)

\* the trimmed texts as the names the task records carry
Words ==
  [b \in {0, 1, 100, 101} |->
     CASE b = 0 -> ""
       [] b = 1 -> "x"
       [] b = 100 -> "x (100 characters)"
       [] b = 101 -> "x (101 characters)"]
NameOf(t) == Words[t.body]

\* what a user can have typed into the form when pressing Create
TypedNames ==
  {Text(0, 0, 0), Text(2, 0, 0)}
    \cup {Text(0, b, 0) : b \in {1, 100, 101}}
    \cup {Text(2, b, 1) : b \in {1, 100, 101}}
DescriptionLengths == {0, 501}
DueDates == {"", "31/12"}
Forms ==
  [taskName : TypedNames, taskDescription : {0}, dueDate : {""}]
    \cup [taskName : {Text(0, 1, 0)}, taskDescription : DescriptionLengths,
          dueDate : DueDates]
NoForm == [taskName |-> Text(0, 0, 0), taskDescription |-> 0, dueDate |-> ""]

\* /^\d{4}-\d{2}-\d{2}$/ over DueDates
DueDateFormat(d) == FALSE

\* CreateTaskModal.handleSubmit passing the typed name on as it is
SubmittedName_Untrimmed(taskName) == taskName

\* CreateTaskModal.handleSubmit: name: taskName.trim()
SubmittedName(taskName) == trim(taskName)

\* the record handed to the schema
TaskData(name, description, list_id, due_date) ==
  [name |-> name, description |-> description, list_id |-> list_id,
   priority |-> "medium", status |-> "pending", due_date |-> due_date]

\* CreateTaskSchema.parse: the checks of a field run in the order they are
\* chained, min(1) and max(100) on the text as given, trim() after them
CreateTaskSchemaIssues(data) ==
  (IF Length(data.name) < 1 THEN {"Task name is required"} ELSE {})
    \cup (IF Length(data.name) > 100
          THEN {"Task name must be less than 100 characters"} ELSE {})
    \cup (IF data.list_id <= 0 THEN {"List ID must be positive"} ELSE {})
    \cup (IF data.description > 500
          THEN {"Description must be less than 500 characters"} ELSE {})
    \cup (IF data.due_date # "" /\ ~DueDateFormat(data.due_date)
          THEN {"Due date must be in YYYY-MM-DD format"} ELSE {})
CreateTaskSchema(data) == [data EXCEPT !.name = trim(data.name)]

\* validateData: { success: true, data } or { success: false, error }
validateData(data) ==
  IF CreateTaskSchemaIssues(data) = {}
  THEN [success |-> TRUE, data |-> CreateTaskSchema(data), error |-> {}]
  ELSE [success |-> FALSE, data |-> data, error |-> CreateTaskSchemaIssues(data)]

\* a validation that lets every record through
validateWithAlert_Pass(result) == <<result.data>>

\* validateWithAlert: the data, or null after Alert.alert(errorTitle, error)
validateWithAlert(result) == IF result.success THEN <<result.data>> ELSE <<>>

\* validateFormInput(value, minLength, maxLength)
validateFormInput(value, minLength, maxLength) ==
  IF Length(value) = 0 \/ Length(trim(value)) = 0 THEN FALSE
  ELSE IF Length(trim(value)) < minLength THEN FALSE
  ELSE IF Length(trim(value)) > maxLength THEN FALSE
  ELSE TRUE

\* the request the mutation or the storage call is given
NewTaskOf(validatedData) ==
  [name |-> NameOf(validatedData.name), list_id |-> validatedData.list_id,
   priority |-> validatedData.priority, status |-> validatedData.status,
   due_date |-> Undefined]

\* which of the two screens the application has: the one that uses the
\* hooks keeps the query useTasksByList(listIdNumber) mounted
HooksScreen == cache[byListKey(listIdNumber)].st # "none"

\* Create pressed in CreateTaskModal of the screen that uses the hooks:
\* handleSubmit checks the due date and calls onSubmit = handleCreateTask,
\* which validates and, with valid data, calls createTaskMutation.mutate
ModalSubmit(form) ==
  LET taskData == TaskData(SubmittedName(form.taskName), form.taskDescription,
                           listIdNumber, form.dueDate)
      validatedData == validateWithAlert(validateData(taskData))
  IN /\ HooksScreen
     /\ submitted' = form
     /\ IF form.dueDate # "" /\ ~DueDateFormat(form.dueDate)
        THEN /\ alert' = "Due date must be in YYYY-MM-DD format"
             /\ last' = Step("createRejected", <<>>)
             /\ UNCHANGED <<hookVars, db, screenVars, libVars>>
        ELSE IF validatedData = <<>>
        THEN /\ alert' = "Task Validation Error"
             /\ last' = Step("createRejected", <<>>)
             /\ UNCHANGED <<hookVars, db, screenVars, libVars>>
        ELSE /\ CreateMutate(NewTaskOf(validatedData[1]))
             /\ alert' = ""
             /\ UNCHANGED <<screenVars, libVars>>

\* Create pressed on the screen that calls the queries itself (its form has
\* a name and a description); the button is disabled while isCreating
ScreenCreateTask(form) ==
  LET taskData == TaskData(trim(form.taskName), form.taskDescription,
                           listIdNumber, "")
      validatedData == validateWithAlert(validateData(taskData))
  IN /\ ~HooksScreen
     /\ form.dueDate = ""
     /\ \A c \in calls : c.kind # "create"
     /\ submitted' = form
     /\ IF ~validateFormInput(form.taskName, 1, 100)
        THEN /\ alert' = "Validation Error"
             /\ last' = Step("screenCreateRejected", <<>>)
             /\ UNCHANGED <<hookVars, db, screenVars, libVars>>
        ELSE IF validatedData = <<>>
        THEN /\ alert' = "Task Validation Error"
             /\ last' = Step("screenCreateRejected", <<>>)
             /\ UNCHANGED <<hookVars, db, screenVars, libVars>>
        ELSE /\ nCalls < MaxCalls
             /\ alert' = ""
             /\ calls' = calls \cup
                  {Call(nCalls + 1, "create", Undefined, FALSE,
                        NewTaskOf(validatedData[1]).name, "storage")}
             /\ nCalls' = nCalls + 1
             /\ last' = Step("screenCreateStart", <<>>)
             /\ UNCHANGED <<hookVars, libVars, db, screenTasks, processingTaskIds,
                            screenDeletingTaskId, searchQuery,
                            debouncedSearchQuery, filterStatus, filterPriority,
                            shown>>

\* createTask resolved: the handler goes on to getTasksByListId
ScreenCreateResolved(c) ==
  /\ c \in calls /\ c.kind = "create" /\ c.pc = "storage"
  /\ db' = createTask(db, [name |-> c.param, list_id |-> listIdNumber,
                           status |-> "pending", priority |-> "medium",
                           due_date |-> Undefined])
  /\ nextId' = nextId + 1
  /\ calls' = (calls \ {c}) \cup {[c EXCEPT !.pc = "refresh"]}
  /\ last' = Step("screenCreateResolved", <<c>>)
  /\ UNCHANGED <<formVars, libVars, hookFile, now, cache, fetching, stale, muts, nMuts,
                 nFetch, deletingTaskId, currentDelete, observer, hist,
                 screenTasks, processingTaskIds, screenDeletingTaskId,
                 searchQuery, debouncedSearchQuery, filterStatus,
                 filterPriority, nCalls, shown>>

ScreenCreateRefreshed(c) ==
  /\ c \in calls /\ c.kind = "create" /\ c.pc = "refresh"
  /\ screenTasks' = getTasksByListId(db, listIdNumber)
  /\ shown' = [kind |-> "list", param |-> ""]
  /\ calls' = calls \ {c}
  /\ last' = Step("screenCreateRefreshed", <<c>>)
  /\ UNCHANGED <<hookVars, formVars, libVars, db, processingTaskIds,
                 screenDeletingTaskId, searchQuery, debouncedSearchQuery,
                 filterStatus, filterPriority, nCalls>>

ScreenCreateThrew(c) ==
  /\ c \in calls /\ c.kind = "create"
  /\ calls' = calls \ {c}
  /\ last' = Step("screenCreateThrew", <<c>>)
  /\ UNCHANGED <<hookVars, formVars, libVars, db, screenTasks, processingTaskIds,
                 screenDeletingTaskId, searchQuery, debouncedSearchQuery,
                 filterStatus, filterPriority, nCalls, shown>>

\* ---------------------------------------------------------- useAsyncState
AsyncNull == "null"
AsyncValues == {"success", "manual data"}
AsyncErrors == {"Test error"}

AsyncState(data, loading, error, isSuccess, isError) ==
  [data |-> data, loading |-> loading, error |-> error,
   isSuccess |-> isSuccess, isError |-> isError]

\* useState({ data: initialState, loading: false, error: null, ... })
InitialAsyncState(init) == AsyncState(init, FALSE, AsyncNull, FALSE, FALSE)

\* the component renders again with another initialState argument: the
\* state cell is kept, reset is rebuilt
Rerender(init) ==
  /\ init # initialState
  /\ initialState' = init
  /\ last' = Step("rerender", <<>>)
  /\ UNCHANGED <<hookVars, db, screenVars, formVars, storeVars, asyncState,
                 execs, nExecs, manual>>

\* execute(asyncFunction) up to its await
Execute ==
  /\ nExecs < MaxExecs
  /\ asyncState' = [asyncState EXCEPT !.loading = TRUE, !.error = AsyncNull,
                                      !.isError = FALSE]
  /\ execs' = execs \cup {[xid |-> nExecs + 1, dataAtCall |-> asyncState.data]}
  /\ nExecs' = nExecs + 1
  /\ manual' = IF execs = {} THEN FALSE ELSE manual
  /\ last' = Step("execute", <<>>)
  /\ UNCHANGED <<hookVars, db, screenVars, formVars, storeVars, initialState>>

\* the awaited function resolved with result
ExecuteResolved(x, result) ==
  /\ x \in execs
  /\ asyncState' = AsyncState(result, FALSE, AsyncNull, TRUE, FALSE)
  /\ execs' = execs \ {x}
  /\ last' = Settled("executeResolved", <<x>>, "none", NoError)
  /\ UNCHANGED <<hookVars, db, screenVars, formVars, storeVars, initialState,
                 nExecs, manual>>

\* a catch block that drops the data
executeCatch_DropData(prev, error) ==
  AsyncState(AsyncNull, FALSE, error, FALSE, TRUE)

\* the catch block: setState(prev => ({ ...prev, loading: false, error,
\* isSuccess: false, isError: true }))
executeCatch(prev, error) ==
  [prev EXCEPT !.loading = FALSE, !.error = error, !.isSuccess = FALSE,
               !.isError = TRUE]

\* the awaited function rejected with error
ExecuteRejected(x, error) ==
  /\ x \in execs
  /\ asyncState' = executeCatch(asyncState, error)
  /\ execs' = execs \ {x}
  /\ last' = Settled("executeRejected", <<x>>, "none", NoError)
  /\ UNCHANGED <<hookVars, db, screenVars, formVars, storeVars, initialState,
                 nExecs, manual>>

\* a reset that keeps the data
reset_KeepData(st, init) == [InitialAsyncState(init) EXCEPT !.data = st.data]

\* reset: setState({ data: initialState, loading: false, ... })
reset(st, init) == InitialAsyncState(init)

Reset ==
  /\ asyncState' = reset(asyncState, initialState)
  /\ manual' = (execs # {})
  /\ last' = Step("reset", <<>>)
  /\ UNCHANGED <<hookVars, db, screenVars, formVars, storeVars, initialState,
                 execs, nExecs>>

SetData(data) ==
  /\ asyncState' = [asyncState EXCEPT !.data = data, !.isSuccess = TRUE,
                                      !.isError = FALSE]
  /\ last' = Step("setData", <<>>)
  /\ UNCHANGED <<hookVars, db, screenVars, formVars, storeVars, initialState,
                 execs, nExecs, manual>>

\* setError(error): isError: !!error, isSuccess: !error
SetError(error) ==
  /\ asyncState' = [asyncState EXCEPT !.error = error,
                                      !.isError = (error # AsyncNull),
                                      !.isSuccess = (error = AsyncNull)]
  /\ last' = Step("setError", <<>>)
  /\ UNCHANGED <<hookVars, db, screenVars, formVars, storeVars, initialState,
                 execs, nExecs, manual>>

SetLoading(loading) ==
  /\ asyncState' = [asyncState EXCEPT !.loading = loading]
  /\ manual' = (execs # {})
  /\ last' = Step("setLoading", <<>>)
  /\ UNCHANGED <<hookVars, db, screenVars, formVars, storeVars, initialState,
                 execs, nExecs>>

\* ------------------------------------------------------------- useUIStore
ModalFlags ==
  {"isCreateListModalOpen", "isCreateTaskModalOpen", "isEditListModalOpen",
   "isEditTaskModalOpen"}
LoadingFlags ==
  {"isCreatingList", "isCreatingTask", "isUpdatingList", "isUpdatingTask",
   "isDeletingList", "isDeletingTask"}
SelectedIds == {"selectedListId", "selectedTaskId"}

\* the state the store is created with
InitialUI ==
  [f \in ModalFlags \cup LoadingFlags \cup SelectedIds |->
     IF f \in SelectedIds THEN Null ELSE FALSE]

\* partialize: only the selected items are persisted
partialize(st) == [f \in SelectedIds |-> st[f]]

\* what a session can have left in AsyncStorage
StoredSelections == [SelectedIds -> {Null, 1}]

\* set(partial) of the persisted store: the fields of partial are merged
\* into the state and the item is written
StoreSet(op, partial) ==
  /\ ui' = [f \in DOMAIN ui |-> IF f \in DOMAIN partial THEN partial[f] ELSE ui[f]]
  /\ uiStorage' = partialize(ui')
  /\ last' = Step(op, <<>>)
  /\ UNCHANGED <<hookVars, db, screenVars, formVars, asyncVars, hydration>>

\* openCreateListModal, openCreateTaskModal / closeCreateListModal,
\* closeCreateTaskModal
SetCreateModal(flag, open) ==
  /\ flag \in {"isCreateListModalOpen", "isCreateTaskModalOpen"}
  /\ StoreSet("setCreateModal", [f \in {flag} |-> open])

\* the selected id an edit modal goes with
EditSelection(flag) ==
  IF flag = "isEditListModalOpen" THEN "selectedListId" ELSE "selectedTaskId"

\* openEditListModal(listId), openEditTaskModal(taskId)
OpenEditModal(flag, id) ==
  /\ flag \in {"isEditListModalOpen", "isEditTaskModalOpen"}
  /\ StoreSet("openEditModal",
              [f \in {flag, EditSelection(flag)} |-> IF f = flag THEN TRUE ELSE id])

\* closeEditListModal, closeEditTaskModal
CloseEditModal(flag) ==
  /\ flag \in {"isEditListModalOpen", "isEditTaskModalOpen"}
  /\ StoreSet("closeEditModal",
              [f \in {flag, EditSelection(flag)} |-> IF f = flag THEN FALSE ELSE Null])

\* setCreatingList .. setDeletingTask
SetLoadingFlag(flag, loading) ==
  /\ flag \in LoadingFlags
  /\ StoreSet("setLoadingFlag", [f \in {flag} |-> loading])

\* setSelectedListId, setSelectedTaskId
SetSelectedId(field, id) ==
  /\ field \in SelectedIds
  /\ StoreSet("setSelectedId", [f \in {field} |-> id])

\* a resetUI that leaves the selection alone
resetUI_KeepSelection == [f \in ModalFlags \cup LoadingFlags |-> FALSE]

\* resetUI: every flag false, both selected ids null
resetUI == InitialUI

ResetUI == StoreSet("resetUI", resetUI)

\* the persist middleware merges the item it read at creation
Hydrate ==
  /\ hydration # <<>>
  /\ ui' = [f \in DOMAIN ui |->
              IF f \in SelectedIds THEN hydration[1][f] ELSE ui[f]]
  /\ uiStorage' = partialize(ui')
  /\ hydration' = <<>>
  /\ last' = Step("hydrate", <<>>)
  /\ UNCHANGED <<hookVars, db, screenVars, formVars, asyncVars>>

\* ------------------------------------------------------------------ system
\* The hooks that are mounted when the model starts: 'loaded' queries have
\* resolved their first fetch, 'pending' ones are still waiting for it.
Scenario(loaded, pending) == [loaded |-> loaded, pending |-> pending]

AllLoaded ==
  {tasksKey, byListKey(1), byListKey(2), taskKey(1), taskKey(2),
   byStatusKey("pending"), byStatusKey("completed"), byPriorityKey("high"),
   completedKey, upcomingKey}

Scenarios ==
  { Scenario({}, {}),
    Scenario({byListKey(1)}, {}),
    Scenario({tasksKey, byListKey(1)}, {byListKey(2)}),
    Scenario(AllLoaded, {}) }

InitBase ==
  /\ hookFile \in HookFiles
  /\ now = 1
  /\ db = SeedTasks
  /\ nextId = Len(SeedTasks) + 1
  /\ \E sc \in Scenarios :
       /\ cache = [k \in Keys |->
                     IF k \in sc.loaded
                     THEN [st |-> "data", val |-> queryFn(SeedTasks, k)[1]]
                     ELSE IF k \in sc.pending
                          THEN [st |-> "nodata", val |-> <<>>]
                          ELSE NoQuery]
       /\ fetching = sc.pending
  /\ stale = {}
  /\ muts = {}
  /\ nMuts = 0
  /\ nFetch = 0
  /\ deletingTaskId = Null
  /\ currentDelete = 0
  /\ observer = [h \in Hooks |-> IdleObserver]
  /\ screenTasks = getTasksByListId(SeedTasks, listIdNumber)
  /\ processingTaskIds = {}
  /\ screenDeletingTaskId = Null
  /\ searchQuery = ""
  /\ debouncedSearchQuery = ""
  /\ filterStatus = "all"
  /\ filterPriority = "all"
  /\ calls = {}
  /\ nCalls = 0
  /\ shown = [kind |-> "list", param |-> ""]
  /\ submitted = NoForm
  /\ alert = ""
  /\ initialState = AsyncNull
  /\ asyncState = InitialAsyncState(AsyncNull)
  /\ execs = {}
  /\ nExecs = 0
  /\ manual = FALSE
  /\ ui = InitialUI
  /\ last = Step("init", <<>>)
  /\ hist = [failed |-> FALSE, fetched |-> FALSE]

\* the first launch: AsyncStorage has no 'ui-store' item
Init ==
  /\ InitBase
  /\ uiStorage = partialize(InitialUI)
  /\ hydration = <<>>

Next ==
  \/ \E newTask \in NewTaskInputs : CreateOnMutate(newTask)
  \/ \E m \in muts : CreateOnSuccess(m)
  \/ \E m \in muts : CreateOnError(m)
  \/ \E id \in Ids(db), task \in UpdateInputs : UpdateMutate(id, task)
  \/ \E m \in muts : UpdateOnSuccess(m)
  \/ \E m \in muts : UpdateOnError(m)
  \/ \E task \in DisplayedTasks : ToggleOnMutate(task)
  \/ \E m \in muts : ToggleOnSuccess(m)
  \/ \E m \in muts : ToggleOnError(m)
  \/ \E task \in DisplayedTasks : DeleteOnMutate(task)
  \/ \E m \in muts : DeleteOnSuccess(m)
  \/ \E m \in muts : DeleteOnError(m)
  \/ \E task \in DisplayedTasks, status \in Statuses : StatusOnMutate(task, status)
  \/ \E m \in muts : StatusOnSuccess(m)
  \/ \E m \in muts : StatusOnError(m)
  \/ \E k \in Keys : FetchResolve(k)
  \/ Tick

Spec == Init /\ [][Next]_vars

\* the screen that calls the task queries itself; the query cache is not
\* in use
InitScreen ==
  /\ Init
  /\ hookFile = "useTasks"
  /\ \A k \in Keys : cache[k] = NoQuery

\* its toggle and delete handlers
NextScreenMutate ==
  \/ \E task \in RenderedTasks : ScreenToggleStart(task)
  \/ \E c \in calls : ScreenToggleResolved(c)
  \/ \E c \in calls : ScreenToggleRefreshed(c)
  \/ \E c \in calls : ScreenToggleThrew(c)
  \/ \E task \in RenderedTasks : ScreenDeleteStart(task)
  \/ \E c \in calls : ScreenDeleteResolved(c)
  \/ \E c \in calls : ScreenDeleteRefreshed(c)
  \/ \E c \in calls : ScreenDeleteThrew(c)

SpecScreenMutate == InitScreen /\ [][NextScreenMutate]_vars

\* its search box and filters
NextScreenLoad ==
  \/ \E query \in SearchTerms \cup {""} : ScreenType(query)
  \/ ScreenDebounced
  \/ \E status \in Statuses \cup {"all"} : ScreenStatusFilter(status)
  \/ \E priority \in Priorities \cup {"all"} : ScreenPriorityFilter(priority)
  \/ \E c \in calls : ScreenLoadResolved(c)
  \/ \E c \in calls : ScreenLoadThrew(c)

SpecScreenLoad == InitScreen /\ [][NextScreenLoad]_vars

\* the create hook on its own
NextCreate ==
  \/ \E newTask \in NewTaskInputs : CreateOnMutate(newTask)
  \/ \E m \in muts : CreateOnSuccess(m)
  \/ \E m \in muts : CreateOnError(m)
  \/ \E k \in Keys : FetchResolve(k)
  \/ Tick

SpecCreate == Init /\ [][NextCreate]_vars

\* the query hooks: the screens render them with the parameters of
\* MountKeys, each hook with a falsy and a truthy one
MountKeys ==
  FalsyKeys \cup {taskKey(1), byListKey(2), byStatusKey("in_progress"),
                  byPriorityKey("low"), searchKey("a")}

NextQueries ==
  \/ \E k \in MountKeys : UseQuery(k)
  \/ \E k \in Keys : FetchStart(k)
  \/ \E k \in Keys : FetchResolve(k)

SpecQueries == Init /\ [][NextQueries]_vars

\* refetches of the list views that start while no mutation is in flight,
\* and the onMutate steps that follow them
NextRefetch ==
  \/ (muts = {} /\ \E k \in Keys : k.view \in {"all", "byList"} /\ FetchStart(k))
  \/ \E k \in Keys : FetchResolve(k)
  \/ \E newTask \in NewTaskInputs : CreateOnMutate(newTask)
  \/ \E task \in DisplayedTasks : ToggleOnMutate(task)
  \/ \E task \in DisplayedTasks : DeleteOnMutate(task)
  \/ \E task \in DisplayedTasks, status \in Statuses : StatusOnMutate(task, status)

SpecRefetch == Init /\ [][NextRefetch]_vars

\* useAsyncState on its own
NextAsync ==
  \/ \E init \in AsyncValues \cup {AsyncNull} : Rerender(init)
  \/ Execute
  \/ \E x \in execs, result \in AsyncValues : ExecuteResolved(x, result)
  \/ \E x \in execs, error \in AsyncErrors : ExecuteRejected(x, error)
  \/ Reset
  \/ \E data \in AsyncValues : SetData(data)
  \/ \E error \in AsyncErrors \cup {AsyncNull} : SetError(error)
  \/ \E loading \in BOOLEAN : SetLoading(loading)

SpecAsync == InitScreen /\ [][NextAsync]_vars

\* useUIStore on its own, started with the item of an earlier session
InitStore ==
  /\ InitBase
  /\ hookFile = "useTasks"
  /\ \A k \in Keys : cache[k] = NoQuery
  /\ \E item \in StoredSelections : uiStorage = item /\ hydration = <<item>>

NextStore ==
  \/ \E flag \in ModalFlags, open \in BOOLEAN : SetCreateModal(flag, open)
  \/ \E flag \in ModalFlags, id \in {1, 2} : OpenEditModal(flag, id)
  \/ \E flag \in ModalFlags : CloseEditModal(flag)
  \/ \E flag \in LoadingFlags, loading \in BOOLEAN : SetLoadingFlag(flag, loading)
  \/ \E field \in SelectedIds, id \in {Null, 1, 2} : SetSelectedId(field, id)
  \/ ResetUI
  \/ Hydrate

SpecStore == InitStore /\ [][NextStore]_vars

\* the create forms of the two screens; a build has one of the screens, and
\* its behaviours are those in which the other one's actions do not occur
NextForm ==
  \/ \E form \in Forms : ModalSubmit(form)
  \/ \E m \in muts : CreateOnSuccess(m)
  \/ \E m \in muts : CreateOnError(m)
  \/ \E form \in Forms : ScreenCreateTask(form)
  \/ \E c \in calls : ScreenCreateResolved(c)
  \/ \E c \in calls : ScreenCreateRefreshed(c)
  \/ \E c \in calls : ScreenCreateThrew(c)
  \/ Tick

\* the screen is open on its list: the one that uses the hooks has read
\* useTasksByList(listIdNumber), the other one has no query at all
InitForm ==
  /\ Init
  /\ \A k \in Keys : k # byListKey(listIdNumber) => cache[k] = NoQuery

SpecForm == InitForm /\ [][NextForm]_vars

\* ===================================================================
\* Properties
\* ===================================================================
LastMut == last.m[1]

ListViewKeys == {k \in Keys : k.view \in ListViews}

ViewIds(c, k) == IF c[k].st = "data" THEN Ids(c[k].val) ELSE {}

\* the record with the given id in a list view (the first one)
RecordIn(c, k, id) == Find(c[k].val, LAMBDA t : t.id = id)

\* C1: rollback exactness for create -- after a failed create that no other
\* operation interleaved with, the all-tasks view and byList(list_id) equal
\* their values from before onMutate and no view holds the temporary id.
C1_CreateRollbackExact ==
  (last.op = "createOnError" /\ LastMut.clean) =>
    /\ cache[tasksKey] = LastMut.pre[tasksKey]
    /\ cache[byListKey(LastMut.newTask[1].list_id)]
         = LastMut.pre[byListKey(LastMut.newTask[1].list_id)]
    /\ \A k \in ListViewKeys :
         LastMut.ctx.optimisticTask[1].id \notin ViewIds(cache, k)

\* C2: temp-id replacement -- after a successful create that no other
\* operation interleaved with, neither all-tasks nor byList(list_id) holds
\* the temporary id and each holds exactly one record with the id storage
\* assigned, at the head.
C2_TempIdReplaced ==
  (last.op = "createOnSuccess" /\ LastMut.clean) =>
    \A k \in {tasksKey, byListKey(LastMut.newTask[1].list_id)} :
      /\ cache[k].st = "data"
      /\ LastMut.ctx.optimisticTask[1].id \notin ViewIds(cache, k)
      /\ Len(cache[k].val) > 0
      /\ cache[k].val[1].id = db[Len(db)].id
      /\ Cardinality({i \in 1 .. Len(cache[k].val) :
                        cache[k].val[i].id = db[Len(db)].id}) = 1

\* the views the toggle patches: by-id, all-tasks, every byList and
\* byStatus view
TogglePatchedKeys(id) ==
  {k \in Keys : k = taskKey(id) \/ k.view \in {"all", "byList", "byStatus"}}

\* C3: rollback exactness for toggle -- after a failed toggle of T that no
\* other operation interleaved with, every patched view that held T before
\* onMutate shows T with its pre-toggle is_completed and status.
C3_ToggleRollbackExact ==
  (last.op = "toggleOnError" /\ LastMut.clean) =>
    \A k \in TogglePatchedKeys(LastMut.id) :
      (LastMut.pre[k].st = "data" /\ LastMut.id \in ViewIds(LastMut.pre, k)) =>
        /\ cache[k].st = "data"
        /\ LastMut.id \in ViewIds(cache, k)
        /\ RecordIn(cache, k, LastMut.id)[1].is_completed
             = RecordIn(LastMut.pre, k, LastMut.id)[1].is_completed
        /\ RecordIn(cache, k, LastMut.id)[1].status
             = RecordIn(LastMut.pre, k, LastMut.id)[1].status

\* C4: rollback exactness for delete -- after a failed delete of T that no
\* other operation interleaved with, the by-id entry, the all-tasks view and
\* every byList view equal their values from before onMutate.
C4_DeleteRollbackExact ==
  (last.op = "deleteOnError" /\ LastMut.clean) =>
    \A k \in {kk \in Keys : kk = taskKey(LastMut.id)
                              \/ kk.view \in {"all", "byList"}} :
      cache[k] = LastMut.pre[k]

C6_OneMutationPerTask ==
  \A m1 \in muts, m2 \in muts :
    (m1.mid # m2.mid /\ m1.kind # "create" /\ m2.kind # "create")
      => m1.id # m2.id

\* the settled, failure-free states C7 speaks about: no mutation in flight,
\* none has failed, and no fetch has resolved since the mutations began
SettledWithoutFailure ==
  muts = {} /\ nMuts > 0 /\ ~hist.failed /\ ~hist.fetched

\* the ids of the records of list listId in the all-tasks view
AllIdsOfList(listId) ==
  {cache[tasksKey].val[i].id :
     i \in {j \in 1 .. Len(cache[tasksKey].val) :
              cache[tasksKey].val[j].list_id = listId}}

\* C7: cross-view consistency -- once every mutation has settled without
\* failure, for every list L whose byList(L) view is cached together with
\* the all-tasks view, a task is in all-tasks with list_id L iff it is in
\* byList(L), and its two copies agree on is_completed and status.
C7_CrossViewConsistency ==
  SettledWithoutFailure =>
    \A l \in Lists :
      (cache[tasksKey].st = "data" /\ cache[byListKey(l)].st = "data") =>
        /\ AllIdsOfList(l) = ViewIds(cache, byListKey(l))
        /\ \A id \in ViewIds(cache, byListKey(l)) \cap ViewIds(cache, tasksKey) :
             /\ RecordIn(cache, tasksKey, id)[1].is_completed
                  = RecordIn(cache, byListKey(l), id)[1].is_completed
             /\ RecordIn(cache, tasksKey, id)[1].status
                  = RecordIn(cache, byListKey(l), id)[1].status

\* C8: optimistic visibility of create -- right after onMutate of a create
\* for list L, all-tasks and byList(L) both start with the optimistic record
\* (the submitted fields, is_completed false, a temporary id that no stored
\* row has) followed by their previous contents; an absent view becomes the
\* one-element sequence.
C8_CreateOptimisticVisibility ==
  \A m \in muts :
    (m.kind = "create" /\ m.clean) =>
      LET newTask == m.newTask[1]
          optimisticTask == m.ctx.optimisticTask[1]
      IN /\ optimisticTask.name = newTask.name
         /\ optimisticTask.list_id = newTask.list_id
         /\ optimisticTask.priority = newTask.priority
         /\ optimisticTask.status = newTask.status
         /\ optimisticTask.due_date = newTask.due_date
         /\ optimisticTask.is_completed = FALSE
         /\ optimisticTask.id = Epoch + m.startedAt
         /\ optimisticTask.id \notin Ids(db)
         /\ \A k \in {tasksKey, byListKey(newTask.list_id)} :
              /\ cache[k].st = "data"
              /\ cache[k].val =
                   <<optimisticTask>> \o
                     (IF m.pre[k].st = "data" THEN m.pre[k].val ELSE <<>>)

\* a create is in flight, untouched by any other operation, on a list whose
\* view held records while the all-tasks view was absent
C8_Witness ==
  \E m \in muts :
    /\ m.kind = "create" /\ m.clean
    /\ now > m.startedAt
    /\ m.pre[byListKey(m.newTask[1].list_id)].st = "data"
    /\ Len(m.pre[byListKey(m.newTask[1].list_id)].val) > 0
    /\ m.pre[tasksKey].st = "none"

\* C9: optimistic toggle mirrors status -- right after onMutate of a toggle
\* of T to c, every copy of T in the by-id entry, all-tasks and the byList
\* views has is_completed = c, status 'completed' when c and a status other
\* than 'completed' when not c.
C9_ToggleMirrorsStatus ==
  last.op = "toggleOnMutate" =>
    \A k \in {kk \in Keys : kk = taskKey(LastMut.id)
                              \/ kk.view \in {"all", "byList"}} :
      \A i \in 1 .. Len(cache[k].val) :
        cache[k].val[i].id = LastMut.id =>
          /\ cache[k].val[i].is_completed = LastMut.isCompleted
          /\ (cache[k].val[i].status = "completed") = LastMut.isCompleted

\* C10: completion/status correspondence -- every cached task record has
\* is_completed = true iff status = 'completed', and so has every stored row
\* (the seed rows satisfy it).
C10_CompletionMatchesStatus ==
  /\ \A k \in Keys : \A i \in 1 .. Len(cache[k].val) :
       cache[k].val[i].is_completed = (cache[k].val[i].status = "completed")
  /\ \A i \in 1 .. Len(db) :
       db[i].is_completed = (db[i].status = "completed")

\* the all-tasks view and the byList views
AllAndByListKeys == {k \in Keys : k.view \in {"all", "byList"}}

\* C11: optimistic delete -- right after onMutate of a delete of T the by-id
\* entry of T holds no data and every cached all-tasks / byList view is its
\* previous contents without T, in the same order; after the delete has
\* succeeded those views still exclude T.
C11_OptimisticDelete ==
  /\ last.op = "deleteOnMutate" =>
       /\ LastMut.id \in TaskIds => cache[taskKey(LastMut.id)].st # "data"
       /\ \A k \in AllAndByListKeys :
            LastMut.pre[k].st = "data" =>
              /\ cache[k].st = "data"
              /\ cache[k].val =
                   SelectSeq(LastMut.pre[k].val, LAMBDA t : t.id # LastMut.id)
  /\ (last.op = "deleteOnSuccess" /\ LastMut.clean) =>
       \A k \in AllAndByListKeys : LastMut.id \notin ViewIds(cache, k)

\* whether record t occurs in the data of view k
HoldsRecord(c, k, t) == \E i \in 1 .. Len(c[k].val) : c[k].val[i] = t

\* C12: no cross-talk between concurrent creates -- when a create succeeds
\* while another create is in flight (no failure and no fetch so far), its
\* own optimistic record is gone from all-tasks and its byList view, and the
\* optimistic record of every create still in flight is still in all-tasks
\* and in that create's byList view.
C12_NoCreateCrossTalk ==
  (/\ last.op = "createOnSuccess"
   /\ ~hist.failed /\ ~hist.fetched
   /\ \E m2 \in muts : m2.kind = "create") =>
    /\ \A k \in {tasksKey, byListKey(LastMut.newTask[1].list_id)} :
         ~HoldsRecord(cache, k, LastMut.ctx.optimisticTask[1])
    /\ \A m2 \in muts :
         m2.kind = "create" =>
           \A k \in {tasksKey, byListKey(m2.newTask[1].list_id)} :
             HoldsRecord(cache, k, m2.ctx.optimisticTask[1])

\* the status a toggle or status change gives its task
NewStatus(m) ==
  IF m.kind = "status" THEN m.status
  ELSE IF m.isCompleted THEN "completed" ELSE "pending"

\* C13: views keyed by a changed parameter -- right after onMutate of a
\* toggle or status change that moves T from status s1 to another status s2
\* while byStatus(s1) and byStatus(s2) are both cached, T is no longer in
\* byStatus(s1) and is in byStatus(s2).
C13_ByStatusViewsFollow ==
  last.op \in {"toggleOnMutate", "statusOnMutate"} =>
    \A s1 \in Statuses \ {NewStatus(LastMut)} :
      (/\ LastMut.pre[byStatusKey(s1)].st = "data"
       /\ LastMut.pre[byStatusKey(NewStatus(LastMut))].st = "data"
       /\ LastMut.id \in ViewIds(LastMut.pre, byStatusKey(s1))) =>
        /\ LastMut.id \notin ViewIds(cache, byStatusKey(s1))
        /\ LastMut.id \in ViewIds(cache, byStatusKey(NewStatus(LastMut)))

ErrorOps ==
  {"createOnError", "updateOnError", "toggleOnError", "deleteOnError",
   "statusOnError"}

\* C14: failure propagation -- when the storage call of a mutation throws,
\* the onError callback of its mutate() call runs (after the hook's
\* rollback) and the hook reports the error state with the error thrown.
C14_FailurePropagation ==
  last.op \in ErrorOps =>
    /\ last.cb = "onError"
    /\ observer[LastMut.kind].status = "error"
    /\ observer[LastMut.kind].error = last.thrown

\* C15: settle releases the in-progress marker -- a task id is in
\* processingTaskIds only while a toggle call on that id is waiting; once
\* the call has finished, by success or by failure, the marker is gone.
C15_MarkerReleased ==
  \A id \in processingTaskIds :
    \E c \in calls : c.kind = "toggle" /\ c.id = id

\* a toggle call has just finished by failure of its second await (the
\* table was updated, the reload threw) and no other call is waiting
C15_Witness ==
  /\ last.op = "screenToggleThrew"
  /\ last.m[1].pc = "refresh"
  /\ calls = {}
  /\ processingTaskIds = {}

\* the parameter a search or filter call was last issued with
CurrentParam(kind) ==
  CASE kind = "search" -> debouncedSearchQuery
    [] kind = "status" -> filterStatus
    [] kind = "priority" -> filterPriority
    [] OTHER -> ""

\* C16: stale fetch results are discarded -- when the result of a search or
\* filter fetch is written into the displayed tasks, the parameter the fetch
\* was issued with is the current one.
C16_StaleFetchDiscarded ==
  last.op = "screenLoadResolved" => shown.param = CurrentParam(shown.kind)

\* ---------------------------------------------------- derived views (C17)
DerivedKeys == {completedKey, upcomingKey}

SuccessOps ==
  {"createOnSuccess", "updateOnSuccess", "toggleOnSuccess", "deleteOnSuccess",
   "statusOnSuccess"}

\* the mutation hooks over a cache in which every query, the derived views
\* included, has been read
InitDerived ==
  /\ Init
  /\ \A k \in AllLoaded : cache[k].st = "data"

NextMutations ==
  \/ \E newTask \in NewTaskInputs : CreateOnMutate(newTask)
  \/ \E m \in muts : CreateOnSuccess(m)
  \/ \E m \in muts : CreateOnError(m)
  \/ \E id \in Ids(db), task \in UpdateInputs : UpdateMutate(id, task)
  \/ \E m \in muts : UpdateOnSuccess(m)
  \/ \E m \in muts : UpdateOnError(m)
  \/ \E task \in DisplayedTasks : ToggleOnMutate(task)
  \/ \E m \in muts : ToggleOnSuccess(m)
  \/ \E m \in muts : ToggleOnError(m)
  \/ \E task \in DisplayedTasks : DeleteOnMutate(task)
  \/ \E m \in muts : DeleteOnSuccess(m)
  \/ \E m \in muts : DeleteOnError(m)
  \/ \E task \in DisplayedTasks, status \in Statuses : StatusOnMutate(task, status)
  \/ \E m \in muts : StatusOnSuccess(m)
  \/ \E m \in muts : StatusOnError(m)
  \/ Tick

\* the mutations issued one after the other: a mutation begins when the
\* one before it has settled
NextSettling == NextMutations /\ (muts = {} \/ muts' \subseteq muts)

SpecMutations == InitDerived /\ [][NextSettling]_vars

\* C17: derived views are invalidated on success -- the step in which a
\* create, update, toggle, status change or delete succeeds leaves every
\* 'completed' and 'upcoming' query of the cache marked stale, and the step
\* in which a mutation fails changes the stale mark of neither
C17_DerivedInvalidated ==
  [][ /\ last'.op \in SuccessOps =>
           \A k \in DerivedKeys : cache'[k].st # "none" => k \in stale'
      /\ last'.op \in ErrorOps =>
           \A k \in DerivedKeys : k \in stale' <=> k \in stale ]_vars

C17_Witness ==
  /\ last.op \in SuccessOps
  /\ DerivedKeys \subseteq stale
  /\ hist.failed

\* ------------------------------------------------- validation (C18, C19)
\* the steps in which Create is pressed
SubmitOps ==
  {"createRejected", "createOnMutate", "screenCreateRejected",
   "screenCreateStart"}

\* the record the press hands to CreateTaskSchema
SubmittedData(form) ==
  TaskData(trim(form.taskName), form.taskDescription, listIdNumber,
           form.dueDate)

NameLength(name) ==
  CASE name = "" -> 0
    [] name \in {"a", "b", "x"} -> 1
    [] name = "Buy milk" -> 8
    [] name = "Updated Task" -> 12
    [] name = "x (100 characters)" -> 100
    [] name = "x (101 characters)" -> 101

NameAccepted(taskName) ==
  Length(trim(taskName)) >= 1 /\ Length(trim(taskName)) <= 100

RecordsOf(rows) == {rows[i] : i \in 1 .. Len(rows)}

C20_FetchOnlyNonEmpty ==
  /\ fetching \cap FalsyKeys = {}
  /\ \A k \in FalsyKeys : cache[k].st # "data"
  /\ (last.op = "useQuery" /\ last.m[1].absent /\ last.m[1].key \notin FalsyKeys
        => last.m[1].key \in fetching)

C20_Witness ==
  /\ last.op = "useQuery"
  /\ last.m[1].key = searchKey("a") /\ last.m[1].absent
  /\ searchKey("a") \in fetching
  /\ cache[searchKey("")].st = "nodata"
  /\ cache[taskKey(0)].st = "nodata"

\* --------------------------------------------------- useAsyncState (C21)
\* C21: execute outcomes -- the step in which the awaited function resolves
\* with v leaves exactly {data: v, loading: false, error: null, isSuccess,
\* not isError}; the step in which it rejects with e leaves loading false,
\* error e, isSuccess false, isError true and the data as it was (the data
\* of the moment of the call when nothing else ran in between); execute
\* throws nothing in either case
C21_ExecuteOutcomes ==
  [][ /\ last'.op = "executeResolved" =>
           /\ asyncState'.data \in AsyncValues
           /\ asyncState' = AsyncState(asyncState'.data, FALSE, AsyncNull, TRUE, FALSE)
           /\ last'.thrown = NoError
      /\ last'.op = "executeRejected" =>
           /\ asyncState' = AsyncState(asyncState.data, FALSE, asyncState'.error,
                                       FALSE, TRUE)
           /\ asyncState'.error \in AsyncErrors
           /\ (last.op = "execute" /\ last'.m[1].xid = nExecs
                 => asyncState'.data = last'.m[1].dataAtCall)
           /\ last'.thrown = NoError ]_vars

C21_Witness ==
  /\ last.op = "executeRejected"
  /\ asyncState = AsyncState("manual data", FALSE, "Test error", FALSE, TRUE)
  /\ last.m[1].dataAtCall = "manual data"

\* C22: reset restores the initial state -- whatever setData, setError,
\* setLoading and execute calls came before, the step of reset() leaves
\* exactly {data: initialState, loading: false, error: null, isSuccess:
\* false, isError: false}
C22_ResetRestoresInitial ==
  last.op = "reset" =>
    asyncState = AsyncState(initialState, FALSE, AsyncNull, FALSE, FALSE)

C22_Witness ==
  /\ last.op = "reset"
  /\ initialState = "success"
  /\ asyncState.data = "success"
  /\ nExecs = MaxExecs /\ execs = {}

\* C29: success and error are never reported together -- in every state
\* isSuccess and isError are not both true, and isError is true exactly
\* when error is not null
C29_SuccessXorError ==
  /\ ~(asyncState.isSuccess /\ asyncState.isError)
  /\ (asyncState.isError <=> asyncState.error # AsyncNull)

\* the first half of C29 on its own
C29_NotBoth == ~(asyncState.isSuccess /\ asyncState.isError)

\* C30: loading tracks in-flight work -- while an execute call has not
\* settled and neither setLoading nor reset was called, loading is true
C30_LoadingTracksInFlight ==
  (execs # {} /\ ~manual) => asyncState.loading

\* ------------------------------------------------------ useUIStore (C23)
\* C23: reset-all -- whatever modal, loading and selection actions came
\* before, the step of resetUI() leaves the four modal flags and the six
\* loading flags false and both selected ids null, which is the state the
\* store is created with
C23_ResetUI ==
  last.op = "resetUI" =>
    /\ \A f \in ModalFlags \cup LoadingFlags : ui[f] = FALSE
    /\ \A f \in SelectedIds : ui[f] = Null
    /\ ui = InitialUI

C23_Witness ==
  /\ last.op = "resetUI"
  /\ hydration = <<>>
  /\ ui = InitialUI
  /\ uiStorage = partialize(InitialUI)

\* -------------------------------------------------- useUpdateTask (C24)
\* C24: useUpdateTask is not optimistic -- the step of mutate() writes no
\* cache entry; the step in which the storage update fails changes no
\* cache entry and no stale mark; the step in which it succeeds rewrites
\* no cache entry and leaves the by-id query of the task and every task
\* view of the cache marked stale
C24_UpdateNotOptimistic ==
  [][ /\ last'.op \in {"updateMutate", "updateOnError"} =>
           cache' = cache /\ stale' = stale /\ db' = db
      /\ last'.op = "updateOnSuccess" =>
           /\ cache' = cache
           /\ \A k \in Keys :
                (cache[k].st # "none"
                 /\ (k = taskKey(last'.m[1].id)
                     \/ k.view \in {"all", "byList", "byStatus", "byPriority",
                                    "completed", "upcoming"}))
                  => k \in stale' ]_vars

C24_Witness ==
  /\ last.op = "updateOnSuccess"
  /\ AllLoaded \subseteq stale
  /\ \E i \in 1 .. Len(db) : db[i].name = "Updated Task"
  /\ hist.failed

\* ------------------------------------------------ refetch and patch (C25)
\* C25: an in-flight refetch cannot overwrite an optimistic patch -- while
\* the only mutation begun so far is unsettled, a fetch that was started
\* before its onMutate and resolves now leaves the data of every all-tasks
\* and byList view that onMutate patched as onMutate left it
C25_RefetchKeepsPatch ==
  [][ (last'.op = "fetchResolve" /\ nMuts = 1 /\ muts # {}) =>
        \A m \in muts : \A k \in AllAndByListKeys :
          cache[k] # m.pre[k] => cache'[k] = cache[k] ]_vars

\* the id of the task a mutation works on: the temporary id for a create
TargetId(m) ==
  IF m.kind = "create"
  THEN (IF m.ctx.optimisticTask = <<>> THEN Undefined ELSE m.ctx.optimisticTask[1].id)
  ELSE m.id

\* the records with the given id in a list view
RecordsWithId(c, k, id) ==
  IF c[k].st = "data" THEN SelectSeq(c[k].val, LAMBDA t : t.id = id) ELSE <<>>

\* C26: rollback of one mutation preserves the others -- when the create,
\* toggle, status change or delete of task A fails while a mutation of
\* another task B is in flight, the onError step of A leaves the records of
\* B in the all-tasks view and in every byList view as they were, B's
\* optimistic change included.
C26_RollbackPreservesOthers ==
  [][ \A m \in muts : \A m2 \in muts :
        (/\ last'.op \in {"createOnError", "toggleOnError", "statusOnError",
                          "deleteOnError"}
         /\ last'.m = <<m>>
         /\ m2.kind \in {"create", "toggle", "status", "delete"}
         /\ TargetId(m) # TargetId(m2)) =>
          \A k \in AllAndByListKeys :
            RecordsWithId(cache', k, TargetId(m2)) = RecordsWithId(cache, k, TargetId(m2)) ]_vars

\* C27: no duplicate ids within a view -- in every state no cached all-tasks
\* or byList view holds two records with the same id of a stored task (the
\* temporary ids of creates left aside).
C27_NoDuplicateIds ==
  \A k \in AllAndByListKeys :
    cache[k].st = "data" =>
      \A i \in 1 .. Len(cache[k].val) : \A j \in 1 .. Len(cache[k].val) :
        (/\ cache[k].val[i].id = cache[k].val[j].id
         /\ cache[k].val[i].id \in Ids(db)) => i = j

\* the records of a list view other than those of task id, in view order
OtherRecords(c, k, id) ==
  IF c[k].st = "data" THEN SelectSeq(c[k].val, LAMBDA t : t.id # id) ELSE <<>>

\* the ids of a list view, in view order
IdOrder(c, k) ==
  IF c[k].st = "data" THEN [i \in 1 .. Len(c[k].val) |-> c[k].val[i].id] ELSE <<>>

\* C28: optimistic patches touch only the target task -- right after
\* onMutate of a toggle, status change or delete of task T, every all-tasks
\* and byList view holds the records of the other tasks unchanged and in
\* their previous order; under toggle and status change T keeps its place
\* and a view that was absent from the cache is still absent.
C28_PatchTouchesOnlyTarget ==
  last.op \in {"toggleOnMutate", "statusOnMutate", "deleteOnMutate"} =>
    \A k \in AllAndByListKeys :
      /\ OtherRecords(cache, k, LastMut.id) = OtherRecords(LastMut.pre, k, LastMut.id)
      /\ last.op # "deleteOnMutate" =>
           /\ IdOrder(cache, k) = IdOrder(LastMut.pre, k)
           /\ LastMut.pre[k].st = "none" => cache[k].st = "none"

\* a toggle or status change has patched T in a view that holds other
\* tasks while another list view is absent from the cache
C28_Witness ==
  /\ last.op \in {"toggleOnMutate", "statusOnMutate"}
  /\ \E k \in AllAndByListKeys :
       /\ LastMut.id \in ViewIds(LastMut.pre, k)
       /\ RecordIn(cache, k, LastMut.id) # RecordIn(LastMut.pre, k, LastMut.id)
       /\ Len(OtherRecords(cache, k, LastMut.id)) >= 2
  /\ \E k \in AllAndByListKeys : LastMut.pre[k].st = "none"

====
